---- MODULE Spec2Model ----
(***************************************************************************)
(* Model of lab01/university_db_performance.py: the query timer            *)
(* (UniversityDBPerformance.time_query), the five-query benchmark          *)
(* (run_performance_tests), the result store (results, progress.json) and  *)
(* the orchestrator main().                                                *)
(*                                                                         *)
(* The PostgreSQL session is modelled by what the program can observe of   *)
(* it: whether the connection is usable and whether the open transaction   *)
(* is in the aborted state (every statement issued in an aborted           *)
(* transaction fails until rollback, or commit, ends it).                  *)
(***************************************************************************)
EXTENDS Integers, Sequences, FiniteSets, TLC

VARIABLES
    pc,            \* position of main(): the operation it executes next
    scale_i,       \* index i of "for i, scale in enumerate(scales)", 1-based
    connection,    \* analyzer.connection: "None", "open", "lost", "closed"
    aborted,       \* TRUE when the session's transaction is in the aborted state
    results,       \* analyzer.results
    progress_json, \* content of the file progress.json
    log,           \* the calls main() has completed, in program order
    exit,          \* how main() ended: "running", "returned", "raised"
    faults,        \* how many operations of the run a fault has struck so far
    tq,            \* one call of time_query: its arguments and what it produced
    db,            \* the database: as committed, and as the open transaction sees it
    call           \* one call of an operation on the database, and what it produced

vars == <<pc, scale_i, connection, aborted, results, progress_json, log, exit, faults,
          tq, db, call>>

-----------------------------------------------------------------------------
(* Bounds of the model *)

\* time_query is exercised with runs in 0..MaxRuns
MaxRuns == 3

\* a progress.json left by an earlier run holds entries for scales 1..k, k <= MaxPrior
MaxPrior == 1

\* at most MaxFaults operations of one run of main() are struck by a fault of
\* their own (a failing statement, a broken connection, a failed file
\* operation); the failures that follow from the state a fault left the
\* session in are not counted
MaxFaults == 2

-----------------------------------------------------------------------------
(* Program constants *)

DefaultRuns == 3
SkipCutoff == 120000
TimeoutFallback == 300000
ErrorFallback == 60000
AllFailedFallback == 60000
NumQueries == 5

\* scales = [1, 2, 3, 4]
scales == <<1, 2, 3, 4>>

\* key = f"scale_{scale}", for the scales of the program
Key(scale) == <<"scale_1", "scale_2", "scale_3", "scale_4">>[scale]

-----------------------------------------------------------------------------
(* Failure messages, as sequences of characters, and the test             *)
(*   "timeout" in str(e).lower()                                          *)

MsgStatementTimeout ==
    <<"s","t","a","t","e","m","e","n","t"," ","t","i","m","e","o","u","t">>
MsgLockTimeout == <<"L","o","c","k"," ","T","i","m","e","o","u","t">>
MsgTimedOut == <<"t","i","m","e","d"," ","o","u","t">>
MsgTxnAborted == <<"t","r","a","n","s","a","c","t","i","o","n"," ","i","s"," ",
                   "a","b","o","r","t","e","d">>
MsgConnClosed == <<"c","o","n","n","e","c","t","i","o","n"," ","c","l","o","s","e","d">>
MsgNone == <<>>

LowerChar(c) ==
    CASE c = "L" -> "l"
      [] c = "T" -> "t"
      [] OTHER -> c

\* str.lower()
Lower(s) == [k \in DOMAIN s |-> LowerChar(s[k])]

\* sub in s
Contains(s, sub) ==
    \E k \in 0..(Len(s) - Len(sub)) : SubSeq(s, k + 1, k + Len(sub)) = sub

LooksLikeTimeoutUpperOnly(msg) == Contains(msg, <<"t","i","m","e","o","u","t">>)

\* "timeout" in str(e).lower()
LooksLikeTimeout(msg) == Contains(Lower(msg), <<"t","i","m","e","o","u","t">>)

-----------------------------------------------------------------------------
(* Timing values.  Python computes sum(times) / len(times) in floating     *)
(* point; the model keeps the quotient exact, as numerator and denominator.*)

Num(n) == [num |-> n, den |-> 1]

RECURSIVE Sum(_)
Sum(s) == IF s = <<>> THEN 0 ELSE Head(s) + Sum(Tail(s))

\* avg_time = sum(times) / len(times)
Mean(times) == [num |-> Sum(times), den |-> Len(times)]

-----------------------------------------------------------------------------
(* The session as the program sees it *)

\* What a trial's two statements (SET statement_timeout, the query) and
\* fetchall() produce.  kind "ok": they succeed and the trial measures ms
\* milliseconds; "error": a statement fails with msg and leaves the
\* transaction aborted; "lost": the connection breaks, msg is its message.
Ok(ms) == [kind |-> "ok", ms |-> ms, msg |-> MsgNone]
Error(msg) == [kind |-> "error", ms |-> 0, msg |-> msg]
Lost == [kind |-> "lost", ms |-> 0, msg |-> MsgConnClosed]

\* cursor.execute on the shared session: a broken connection and an aborted
\* transaction refuse every statement, otherwise the server answers r
Respond(conn, ab, r) ==
    IF conn # "open" THEN Lost
    ELSE IF ab THEN Error(MsgTxnAborted)
    ELSE r

ConnAfter(conn, r) == IF r.kind = "lost" /\ conn = "open" THEN "lost" ELSE conn
AbortedAfter(ab, r) == ab \/ r.kind = "error"

\* connection.rollback(): ends the transaction; raises on a broken connection
RollbackRaises(conn) == conn # "open"

-----------------------------------------------------------------------------
(* time_query *)

SkipRemainingAtCutoff(execution_time) == execution_time >= SkipCutoff

\* if execution_time > 120000: ... break
SkipRemaining(execution_time) == execution_time > SkipCutoff

\* except Exception as e: 300000 if "timeout" in str(e).lower() else 60000
Fallback(msg) == IF LooksLikeTimeout(msg) THEN TimeoutFallback ELSE ErrorFallback

CaughtErrorsOnly(r) == r.kind = "error"

\* "except Exception as e" of a trial: which failures of the trial's
\* statements the handler catches
Caught(r) == r.kind \in {"error", "lost"}

\* the one element of a set of one element
Only(S) == CHOOSE x \in S : TRUE

\* One trial, the body of "for i in range(runs)": st is the call so far
\* (times, the list the code builds; the session; stop, set by a break; and
\* trials, what each executed trial met, which the code does not keep), and
\* answer is what the server would do with the trial's statements.
Trial(st, answer) ==
    LET r == Respond(st.conn, st.aborted, answer)
        met == [st EXCEPT !.trials = Append(@, r),
                          !.conn = ConnAfter(@, r),
                          !.aborted = AbortedAfter(@, r)]
    IN  IF r.kind = "ok"
        THEN [met EXCEPT !.times = Append(@, r.ms), !.stop = SkipRemaining(r.ms)]
        ELSE IF Caught(r)
             THEN [met EXCEPT !.times = Append(@, Fallback(r.msg)), !.stop = TRUE]
             ELSE [met EXCEPT !.raised = TRUE, !.stop = TRUE]

\* The loop "for i in range(runs)" from trial i on
RECURSIVE TrialLoop(_, _, _, _)
TrialLoop(i, runs, script, st) ==
    IF i > runs \/ st.stop
    THEN st
    ELSE Only({TrialLoop(i + 1, runs, script, next) : next \in {Trial(st, script[i])}})

AverageOverRuns(times) ==
    IF times # <<>> THEN [num |-> Sum(times), den |-> DefaultRuns]
    ELSE Num(AllFailedFallback)

\* if times: return sum(times) / len(times)  else: return 60000
Average(times) == IF times # <<>> THEN Mean(times) ELSE Num(AllFailedFallback)

\* time_query(query, description, runs): what it returns (ret, unless it
\* raised) and how it leaves the session
time_query(script, runs, conn, ab) ==
    Only({[ret |-> Average(l.times), times |-> l.times, trials |-> l.trials,
           conn |-> l.conn, aborted |-> l.aborted, raised |-> l.raised] :
          l \in {TrialLoop(1, runs, script,
                           [times |-> <<>>, trials |-> <<>>, conn |-> conn,
                            aborted |-> ab, raised |-> FALSE, stop |-> FALSE])}})

-----------------------------------------------------------------------------
(* The result store *)

\* self.results = {'without_indexes': {}, 'with_indexes': {}}
EmptyResults == [without_indexes |-> <<>>, with_indexes |-> <<>>]

\* d[key] = value on a dict
DictSet(d, key, value) ==
    [k \in (DOMAIN d) \cup {key} |-> IF k = key THEN value ELSE d[k]]

\* progress.json: no file, a file json.load rejects, or a dumped results map
NoFile == [state |-> "absent", data |-> EmptyResults]
BrokenFile == [state |-> "corrupt", data |-> EmptyResults]
FileOf(r) == [state |-> "valid", data |-> r]

\* load_progress(), called by __init__ on the fresh results map
load_progress(file) == IF file.state = "valid" THEN file.data ELSE EmptyResults

\* what an earlier run measured: five timings per entry
PriorTimings == [q \in 1..NumQueries |-> Num(1000 + q)]

\* the results an earlier run dumped: entries for scales 1..k, and its
\* with-indexes entry when w
PriorResults(k, w) ==
    [without_indexes |-> [key \in {Key(scales[n]) : n \in 1..k} |-> PriorTimings],
     with_indexes |-> [key \in (IF w THEN {Key(4)} ELSE {}) |-> PriorTimings]]

\* the scales an earlier run may have left entries for: a run cut short
\* after at most MaxPrior scales, or a complete run
PriorScaleCounts == {k \in (0..MaxPrior) \cup {Len(scales)} : k <= Len(scales)}

InitialFiles ==
    {NoFile, BrokenFile}
    \cup {FileOf(PriorResults(k, w)) : k \in PriorScaleCounts, w \in BOOLEAN}

-----------------------------------------------------------------------------
(* run_performance_tests *)

\* What the server does with one of the five queries during one call:
\* "fast": every trial completes, query q in 100*q ms; "timeout": its first
\* trial is cancelled by statement_timeout; "lost": the connection breaks in
\* its first trial.
QueryFates == {"fast", "timeout", "lost"}

\* the fates of the five queries of one call when a fault of kind fate
\* strikes query struck (0: no fault strikes)
FatesOf(struck, fate) == [q \in 1..NumQueries |-> IF q = struck THEN fate ELSE "fast"]

ScriptOf(q, fate) ==
    [t \in 1..DefaultRuns |->
        CASE fate = "fast" -> Ok(100 * q)
          [] fate = "timeout" -> Error(MsgStatementTimeout)
          [] OTHER -> Lost]

\* whether a trial's statements were issued on a transaction in the aborted
\* state, which the server refuses
RefusedIn(trials) == \E k \in DOMAIN trials : trials[k] = Error(MsgTxnAborted)

\* One of time1 .. time5: the time_query call of query q on the session as
\* the calls before it left it
TimeQuery(st, q, fate) ==
    Only({IF t.raised
          THEN [st EXCEPT !.conn = t.conn, !.aborted = t.aborted, !.raised = TRUE,
                          !.refused = @ \/ RefusedIn(t.trials)]
          ELSE [st EXCEPT !.values = Append(@, t.ret), !.conn = t.conn,
                          !.aborted = t.aborted,
                          !.refused = @ \/ RefusedIn(t.trials)] :
          t \in {time_query(ScriptOf(q, fate), DefaultRuns, st.conn, st.aborted)}})

\* time1 .. time5, from query q on, in order
RECURSIVE TimeQueries(_, _, _)
TimeQueries(q, fates, st) ==
    IF q > NumQueries \/ st.raised
    THEN st
    ELSE Only({TimeQueries(q + 1, fates, next) : next \in {TimeQuery(st, q, fates[q])}})

IndexState(with_indexes) == IF with_indexes THEN "with_indexes" ELSE "without_indexes"

\* self.results[...][key] = [time1, time2, time3, time4, time5]
Store(res, scale, with_indexes, values) ==
    [res EXCEPT ![IndexState(with_indexes)] = DictSet(@, Key(scale), values)]

\* run_performance_tests(scale, with_indexes)
run_performance_tests(res, scale, with_indexes, fates, conn, ab) ==
    Only({[results |-> IF t.raised THEN res
                       ELSE Store(res, scale, with_indexes, t.values),
           conn |-> t.conn, aborted |-> t.aborted, raised |-> t.raised,
           refused |-> t.refused] :
          t \in {TimeQueries(1, fates, [values |-> <<>>, conn |-> conn,
                                        aborted |-> ab, raised |-> FALSE,
                                        refused |-> FALSE])}})

-----------------------------------------------------------------------------
(* The database: its tables, indexes and rows, and what each statement of   *)
(* the program does to them.  A table is kept as the number n of its rows,  *)
(* their SERIAL keys being 1..n (every table the program fills was emptied  *)
(* by TRUNCATE ... RESTART IDENTITY or has just been created), and a        *)
(* foreign-key column as the range lo..hi of the keys its rows reference.   *)

\* tables_sql of create_tables, in order
TableNames == <<"departments", "teachers", "courses", "students", "enrollments">>
TableSet == {TableNames[k] : k \in DOMAIN TableNames}

\* tables of clear_tables and of clear_database_completely, in order
ClearOrder == <<"enrollments", "students", "courses", "teachers", "departments">>

\* FOREIGN KEY (...) REFERENCES ... of tables_sql
ForeignKeys ==
    ("teachers.department_id" :> [child |-> "teachers", parent |-> "departments"])
    @@ ("courses.teacher_id" :> [child |-> "courses", parent |-> "teachers"])
    @@ ("enrollments.student_id" :> [child |-> "enrollments", parent |-> "students"])
    @@ ("enrollments.course_id" :> [child |-> "enrollments", parent |-> "courses"])

KeysOf(child) == {fk \in DOMAIN ForeignKeys : ForeignKeys[fk].child = child}

\* the indexes PRIMARY KEY and UNIQUE give a table
ConstraintIndexes(t) ==
    CASE t = "departments" -> {"departments_pkey"}
      [] t = "teachers" -> {"teachers_pkey", "teachers_email_key"}
      [] t = "courses" -> {"courses_pkey"}
      [] t = "students" -> {"students_pkey", "students_email_key"}
      [] OTHER -> {"enrollments_pkey"}

\* indexes of create_indexes and drop_indexes, in order, and their tables
IndexNames ==
    <<"idx_students_enrollment_date", "idx_enrollments_course_student",
      "idx_courses_teacher_id", "idx_courses_name_teacher",
      "idx_teachers_department_id", "idx_enrollments_semester_student_grade">>
IndexTables ==
    <<"students", "enrollments", "courses", "courses", "teachers", "enrollments">>
IndexSet == {IndexNames[k] : k \in DOMAIN IndexNames}
TableOfIndex(i) == IndexTables[CHOOSE k \in DOMAIN IndexNames : IndexNames[k] = i]

NoRef == [lo |-> 1, hi |-> 0]
Ref(lo, hi) == [lo |-> lo, hi |-> hi]
Min(a, b) == IF a < b THEN a ELSE b
Max(a, b) == IF a > b THEN a ELSE b
Hull(r, q) ==
    IF r = NoRef THEN q
    ELSE IF q = NoRef THEN r
    ELSE Ref(Min(r.lo, q.lo), Max(r.hi, q.hi))

\* a database without any table
EmptyDatabase ==
    [tables |-> {}, indexes |-> {}, rows |-> [t \in TableSet |-> 0],
     refs |-> [fk \in DOMAIN ForeignKeys |-> NoRef]]

\* the indexes pg_indexes lists for schema public
AllIndexes(store) ==
    store.indexes \cup UNION {ConstraintIndexes(t) : t \in store.tables}

\* a statement: op on the table or index name; an INSERT adds n rows whose
\* foreign keys reference refs; per is the rule that gave each student of an
\* INSERT INTO enrollments its number of rows
Stmt(op, name) == [op |-> op, name |-> name, n |-> 0, refs |-> <<>>, per |-> ""]
Insert(name, n, refs, per) ==
    [op |-> "INSERT", name |-> name, n |-> n, refs |-> refs, per |-> per]

\* the tables TRUNCATE ... CASCADE empties with the tables of S: those that
\* reference them, and so on
RECURSIVE Cascade(_, _)
Cascade(store, S) ==
    Only({IF more = S THEN S ELSE Cascade(store, more) :
          more \in {S \cup {ForeignKeys[fk].child : fk \in
                              {f \in DOMAIN ForeignKeys :
                                  /\ ForeignKeys[f].parent \in S
                                  /\ ForeignKeys[f].child \in store.tables}}}})

\* rows and references of the tables of S removed
Emptied(store, S) ==
    [store EXCEPT
        !.rows = [t \in TableSet |-> IF t \in S THEN 0 ELSE store.rows[t]],
        !.refs = [fk \in DOMAIN ForeignKeys |->
                    IF ForeignKeys[fk].child \in S \/ ForeignKeys[fk].parent \in S
                    THEN NoRef ELSE store.refs[fk]]]

\* what the server does with a statement on the store as the transaction
\* sees it: the store after it, or ok = FALSE when the server rejects it
Effect(store, stmt) ==
    LET t == stmt.name
        reject == [ok |-> FALSE, store |-> store]
        accept(after) == [ok |-> TRUE, store |-> after]
    IN  CASE stmt.op = "CREATE TABLE IF NOT EXISTS" ->
               IF t \in store.tables THEN accept(store)
               ELSE IF \E fk \in KeysOf(t) : ForeignKeys[fk].parent \notin store.tables
                    THEN reject
                    ELSE accept([store EXCEPT !.tables = @ \cup {t}])
          [] stmt.op = "DROP TABLE IF EXISTS CASCADE" ->
               IF t \notin store.tables THEN accept(store)
               ELSE accept([Emptied(store, {t}) EXCEPT
                               !.tables = @ \ {t},
                               !.indexes = {i \in @ : TableOfIndex(i) # t}])
          [] stmt.op = "TRUNCATE RESTART IDENTITY CASCADE" ->
               IF t \notin store.tables THEN reject
               ELSE Only({accept(Emptied(store, emptied)) :
                          emptied \in {Cascade(store, {t})}})
          [] stmt.op = "CREATE INDEX IF NOT EXISTS" ->
               IF TableOfIndex(t) \notin store.tables THEN reject
               ELSE accept([store EXCEPT !.indexes = @ \cup {t}])
          [] stmt.op = "DROP INDEX IF EXISTS" ->
               IF t \in UNION {ConstraintIndexes(x) : x \in store.tables} THEN reject
               ELSE accept([store EXCEPT !.indexes = @ \ {t}])
          [] stmt.op = "INSERT" ->
               IF t \notin store.tables THEN reject
               ELSE IF stmt.n = 0 THEN accept(store)
               ELSE IF \E fk \in KeysOf(t) :
                          \/ stmt.refs[fk].lo < 1
                          \/ stmt.refs[fk].hi > store.rows[ForeignKeys[fk].parent]
                          \/ stmt.refs[fk].lo > stmt.refs[fk].hi
                    THEN reject
                    ELSE accept([store EXCEPT
                            !.rows[t] = @ + stmt.n,
                            !.refs = [fk \in DOMAIN ForeignKeys |->
                                        IF fk \in KeysOf(t)
                                        THEN Hull(store.refs[fk], stmt.refs[fk])
                                        ELSE store.refs[fk]]])
          [] stmt.op = "SELECT" ->
               IF t \in TableSet /\ t \notin store.tables THEN reject ELSE accept(store)
          [] OTHER -> accept(store)

-----------------------------------------------------------------------------
(* The session with its transaction: committed is the database as           *)
(* committed, work the database as the open transaction sees it.  The work  *)
(* of a transaction that a failed statement aborted, or whose connection    *)
(* broke, is never seen again, so it is dropped at that moment.  trace      *)
(* lists what the program issued, each with how it ended.                   *)

NewSession(conn, ab, committed, work) ==
    [conn |-> conn, aborted |-> ab, committed |-> committed, work |-> work,
     refused |-> FALSE, raised |-> FALSE, caught |-> {}, trace |-> <<>>]

Issued(stmt, end) == [stmt |-> stmt, end |-> end]

\* a fault: the statements of an operation, by position, that the server
\* fails ("error") or during which the connection breaks ("lost")
NoFault == [at |-> {}, kind |-> "ok"]
Fault(at, kind) == [at |-> at, kind |-> kind]
AnswerAt(fault, k) == IF k \in fault.at THEN fault.kind ELSE "ok"

\* cursor.execute(stmt), the server answering answer
Execute(s, stmt, answer) ==
    Only({IF was.conn # "open"
          THEN [was EXCEPT !.raised = TRUE, !.trace = Append(@, Issued(sql, "lost"))]
          ELSE IF was.aborted
          THEN [was EXCEPT !.raised = TRUE, !.refused = TRUE,
                           !.trace = Append(@, Issued(sql, "refused"))]
          ELSE IF answer = "lost"
          THEN [was EXCEPT !.conn = "lost", !.work = was.committed, !.raised = TRUE,
                           !.trace = Append(@, Issued(sql, "lost"))]
          ELSE Only({IF answer = "error" \/ ~e.ok
                     THEN [was EXCEPT !.aborted = TRUE, !.work = was.committed,
                                      !.raised = TRUE,
                                      !.trace = Append(@, Issued(sql, "error"))]
                     ELSE [was EXCEPT !.work = e.store,
                                      !.trace = Append(@, Issued(sql, "ok"))] :
                     e \in {Effect(was.work, sql)}}) :
          was \in {s}, sql \in {stmt}})

\* connection.commit(): on a transaction in the aborted state the server
\* rolls back instead, without an error
Commit(s) ==
    IF s.conn # "open"
    THEN [s EXCEPT !.raised = TRUE, !.trace = Append(@, Issued(Stmt("COMMIT", ""), "lost"))]
    ELSE IF s.aborted
    THEN [s EXCEPT !.aborted = FALSE, !.work = s.committed,
                   !.trace = Append(@, Issued(Stmt("COMMIT", ""), "rolled back"))]
    ELSE [s EXCEPT !.committed = s.work,
                   !.trace = Append(@, Issued(Stmt("COMMIT", ""), "ok"))]

\* connection.rollback()
Rollback(s) ==
    IF RollbackRaises(s.conn)
    THEN [s EXCEPT !.raised = TRUE, !.trace = Append(@, Issued(Stmt("ROLLBACK", ""), "lost"))]
    ELSE [s EXCEPT !.aborted = FALSE, !.work = s.committed,
                   !.trace = Append(@, Issued(Stmt("ROLLBACK", ""), "ok"))]

\* an exception raised by the program itself, not by a statement
Raise(s) == [s EXCEPT !.raised = TRUE]

\* statements issued one after the other, from the k-th on, the first
\* failure propagating; base is the position of the first one in its operation
RECURSIVE Run(_, _, _, _, _)
Run(s, stmts, k, base, fault) ==
    IF k > Len(stmts) \/ s.raised
    THEN s
    ELSE Only({Run(next, stmts, k + 1, base, fault) :
               next \in {Execute(s, stmts[k], AnswerAt(fault, base + k))}})

\* statements issued one after the other, each in a try block of its own
\* whose handler only prints; caught collects the positions that failed
RECURSIVE RunEach(_, _, _, _, _)
RunEach(s, stmts, k, base, fault) ==
    IF k > Len(stmts)
    THEN s
    ELSE Only({RunEach(IF next.raised
                       THEN [next EXCEPT !.raised = FALSE, !.caught = @ \cup {base + k}]
                       ELSE next,
                       stmts, k + 1, base, fault) :
               next \in {Execute(s, stmts[k], AnswerAt(fault, base + k))}})

\* the elements of a set in some order
RECURSIVE SeqOf(_)
SeqOf(S) ==
    IF S = {} THEN <<>>
    ELSE Only({<<x>> \o SeqOf(S \ {x}) : x \in {CHOOSE y \in S : TRUE}})

-----------------------------------------------------------------------------
(* The operations on the database *)

\* create_tables(): the five CREATE TABLE IF NOT EXISTS, one commit; a
\* failure is printed and raised again
create_tables(s, fault) ==
    Only({IF run.raised THEN run ELSE Commit(run) :
          run \in {Run(s, [k \in DOMAIN TableNames |->
                              Stmt("CREATE TABLE IF NOT EXISTS", TableNames[k])],
                       1, 0, fault)}})

ClearParentsFirst == <<"departments", "teachers", "courses", "students", "enrollments">>

\* tables = [...] of clear_tables
TruncateOrder == ClearOrder

\* clear_tables(): rollback, the five TRUNCATE, commit; on any failure
\* rollback and raise
clear_tables(s, fault) ==
    Only({IF done.raised THEN Raise(Rollback([done EXCEPT !.raised = FALSE]))
          ELSE done :
          done \in {Only({IF run.raised THEN run ELSE Commit(run) :
                          run \in {Only({IF start.raised THEN start
                                         ELSE Run(start,
                                                  [k \in DOMAIN TruncateOrder |->
                                                     Stmt("TRUNCATE RESTART IDENTITY CASCADE",
                                                          TruncateOrder[k])],
                                                  1, 0, fault) :
                                         start \in {Rollback(s)}})}})}})

\* clear_database_completely(): the SELECT on pg_indexes (position 1), a
\* DROP INDEX for each index it lists and a DROP TABLE for each table, every
\* DROP in a try block of its own, then commit.  The server lists the
\* indexes in an order of its choice; the outcome is the same for each.
clear_database_completely(s, fault) ==
    Only({IF select.raised THEN select
          ELSE Only({Commit(tables) :
                     tables \in {Only({RunEach(indexes,
                                               [k \in DOMAIN ClearOrder |->
                                                  Stmt("DROP TABLE IF EXISTS CASCADE",
                                                       ClearOrder[k])],
                                               1, Len(indexes.trace) - Len(s.trace), fault) :
                                       indexes \in {RunEach(select,
                                                            [k \in 1..Cardinality(AllIndexes(s.work)) |->
                                                               Stmt("DROP INDEX IF EXISTS",
                                                                    SeqOf(AllIndexes(s.work))[k])],
                                                            1, 1, fault)}})}}) :
          select \in {Execute(s, Stmt("SELECT", "pg_indexes"), AnswerAt(fault, 1))}})

\* rows of generate_departments, generate_teachers and generate_courses
NumDepartments == 10
NumTeachers == 100
NumCourses == 200

\* generate_departments(): ten INSERT (kept as one statement of ten rows),
\* commit
generate_departments(s, fault) ==
    Only({IF run.raised THEN run ELSE Commit(run) :
          run \in {Execute(s, Insert("departments", NumDepartments, <<>>, ""),
                           AnswerAt(fault, 1))}})

\* the rows of child that generate_teachers / generate_courses add: the
\* SELECT of the parent's keys (position 1), random.choice among them for
\* each row, which raises on an empty list, the INSERTs (position 2, kept as
\* one statement), commit
GenerateReferencing(s, child, fk, n, fault) ==
    Only({IF select.raised THEN select
          ELSE IF select.work.rows[ForeignKeys[fk].parent] = 0 THEN Raise(select)
          ELSE Only({IF run.raised THEN run ELSE Commit(run) :
                     run \in {Execute(select,
                                      Insert(child, n,
                                             (fk :> Ref(1, select.work.rows[ForeignKeys[fk].parent])),
                                             ""),
                                      AnswerAt(fault, 2))}}) :
          select \in {Execute(s, Stmt("SELECT", ForeignKeys[fk].parent), AnswerAt(fault, 1))}})

generate_teachers(s, fault) ==
    GenerateReferencing(s, "teachers", "teachers.department_id", NumTeachers, fault)

generate_courses(s, fault) ==
    GenerateReferencing(s, "courses", "courses.teacher_id", NumCourses, fault)

\* batch_size = 1000
batch_size == 1000

\* random.randint(5, 10)
MinEnrollments == 5
MaxEnrollments == 10

\* The random choices of one call of generate_students_and_enrollments, as
\* a rule giving each student (by key) a number of enrollments:
\* "min": 5 for each, "max": 10 for each, "mixed": 5, 6, ..., 10 in turn
Rules == {"min", "max", "mixed"}
NumEnrollments(rule, student_id) ==
    CASE rule = "min" -> MinEnrollments
      [] rule = "max" -> MaxEnrollments
      [] OTHER -> MinEnrollments + (student_id % (MaxEnrollments - MinEnrollments + 1))

\* random.sample(course_ids, k), course_ids being 1..course_ids: k positions
\* of the list, all different, starting at one the student's key stands for
Sample(course_ids, k, student_id) ==
    [j \in 1..k |-> ((student_id + j) % course_ids) + 1]

\* len(enrollments_data) for the students lo..hi of a batch: the sum of
\* their numbers of enrollments (of equal terms under "min" and "max")
RECURSIVE CountEnrollments(_, _, _)
CountEnrollments(rule, lo, hi) ==
    IF lo > hi THEN 0
    ELSE IF lo = hi \/ rule \in {"min", "max"}
    THEN (hi - lo + 1) * NumEnrollments(rule, lo)
    ELSE CountEnrollments(rule, lo, (lo + hi) \div 2)
         + CountEnrollments(rule, ((lo + hi) \div 2) + 1, hi)

LimitBatchSize(batch_start, batch_end) == batch_size

\* LIMIT %s of the SELECT of a batch's student ids: (batch_end - batch_start,)
Limit(batch_start, batch_end) == batch_end - batch_start

\* One batch, the body of "for batch_start in range(0, num_students,
\* batch_size)", b being batch_start // batch_size: INSERT INTO students
\* (position 3b + 2), the SELECT of the highest keys (3b + 3), one
\* random.sample per student, which raises when fewer courses exist than it
\* is to draw, INSERT INTO enrollments (3b + 4)
Batch(s, b, num_students, course_ids, rule, fault) ==
    LET batch_start == b * batch_size
        batch_end == Min(batch_start + batch_size, num_students)
    IN  Only({IF students.raised THEN students
              ELSE Only({IF ids.raised THEN ids
                         ELSE IF course_ids < MaxEnrollments
                                 /\ \E id \in top.lo..top.hi :
                                       NumEnrollments(rule, id) > course_ids
                         THEN Raise(ids)
                         ELSE Execute(ids,
                                      Insert("enrollments",
                                             CountEnrollments(rule, top.lo, top.hi),
                                             ("enrollments.student_id" :> top)
                                             @@ ("enrollments.course_id" :> Ref(1, course_ids)),
                                             rule),
                                      AnswerAt(fault, 3 * b + 4)) :
                         ids \in {Execute(students, Stmt("SELECT", "students"),
                                          AnswerAt(fault, 3 * b + 3))},
                         top \in {Ref(Max(1, students.work.rows["students"]
                                             - Limit(batch_start, batch_end) + 1),
                                      students.work.rows["students"])}}) :
              students \in {Execute(s, Insert("students", batch_end - batch_start, <<>>, ""),
                                    AnswerAt(fault, 3 * b + 2))}})

CommitEachBatch == TRUE

\* whether the loop over the batches commits at the end of a batch: it does
\* not, the one commit follows the loop
CommitsInLoop == FALSE

AfterBatch(s) == IF CommitsInLoop /\ ~s.raised THEN Commit(s) ELSE s

\* the batches first..last, in order
RECURSIVE Batches(_, _, _, _, _, _, _)
Batches(s, first, last, num_students, course_ids, rule, fault) ==
    IF s.raised \/ first > last THEN s
    ELSE IF first = last
    THEN AfterBatch(Batch(s, first, num_students, course_ids, rule, fault))
    ELSE Only({Only({Batches(half, mid + 1, last, num_students, course_ids, rule, fault) :
                     half \in {Batches(s, first, mid, num_students, course_ids, rule,
                                       fault)}}) :
               mid \in {(first + last) \div 2}})

\* generate_students_and_enrollments(num_students): the SELECT of the course
\* ids (position 1), the batches, commit
generate_students_and_enrollments(s, num_students, rule, fault) ==
    Only({IF select.raised THEN select
          ELSE Only({IF run.raised THEN run ELSE Commit(run) :
                     run \in {Batches(select, 0, ((num_students + batch_size - 1) \div batch_size) - 1,
                                      num_students, select.work.rows["courses"], rule,
                                      fault)}}) :
          select \in {Execute(s, Stmt("SELECT", "courses"), AnswerAt(fault, 1))}})

\* the six statements of create_indexes
CreateIndexStatements ==
    [k \in DOMAIN IndexNames |-> Stmt("CREATE INDEX IF NOT EXISTS", IndexNames[k])]

\* the six statements of drop_indexes
DropIndexStatements ==
    [k \in DOMAIN IndexNames |-> Stmt("DROP INDEX IF EXISTS", IndexNames[k])]

\* create_indexes(): each CREATE INDEX in a try block of its own, one commit
create_indexes(s, fault) ==
    Only({Commit(run) : run \in {RunEach(s, CreateIndexStatements, 1, 0, fault)}})

\* drop_indexes(): each DROP INDEX in a try block of its own, one commit
drop_indexes(s, fault) ==
    Only({Commit(run) : run \in {RunEach(s, DropIndexStatements, 1, 0, fault)}})

\* scales = {1: 1000, 2: 10000, 3: 100000, 4: 1000000} of generate_data
NumStudents == <<1000, 10000, 100000, 1000000>>

ParentsLast ==
    <<"clear_tables", "generate_students_and_enrollments", "generate_courses",
      "generate_teachers", "generate_departments", "counts">>

\* the calls of generate_data, in order
GenSteps == <<"clear_tables", "generate_departments", "generate_teachers",
              "generate_courses", "generate_students_and_enrollments", "counts">>

\* a fault of generate_data: in which of its calls, and where in that call
StepFault(step, at, kind) == [step |-> step, at |-> at, kind |-> kind]
FaultIn(fault, step) ==
    IF fault.step = step THEN Fault(fault.at, fault.kind) ELSE NoFault

\* the sessions generate_students_and_enrollments ends in when nothing
\* fails, for the databases generate_data calls it on (the tables filled up
\* to courses, with or without the six indexes): the values of the operator,
\* computed once
CoursesReady(indexes) ==
    [tables |-> TableSet, indexes |-> indexes,
     rows |-> [t \in TableSet |->
                 CASE t = "departments" -> NumDepartments
                   [] t = "teachers" -> NumTeachers
                   [] t = "courses" -> NumCourses
                   [] OTHER -> 0],
     refs |-> [fk \in DOMAIN ForeignKeys |->
                 CASE fk = "teachers.department_id" -> Ref(1, NumDepartments)
                   [] fk = "courses.teacher_id" -> Ref(1, NumTeachers)
                   [] OTHER -> NoRef]]

StudentsGenerated ==
    {[store |-> CoursesReady(indexes), num_students |-> NumStudents[scale],
      rule |-> rule,
      session |-> generate_students_and_enrollments(
                      NewSession("open", FALSE, CoursesReady(indexes),
                                 CoursesReady(indexes)),
                      NumStudents[scale], rule, NoFault)] :
        indexes \in {{}, IndexSet}, scale \in DOMAIN NumStudents,
        rule \in {"min", "max"}}

\* generate_students_and_enrollments(s, num_students, rule, fault), its
\* value taken from StudentsGenerated where that holds it
GenerateStudents(s, num_students, rule, fault) ==
    IF /\ fault = NoFault
       /\ s.conn = "open" /\ ~s.aborted /\ s.committed = s.work
       /\ \E g \in StudentsGenerated :
             g.store = s.work /\ g.num_students = num_students /\ g.rule = rule
    THEN Only({[s EXCEPT !.work = g.session.work, !.committed = g.session.committed,
                         !.trace = s.trace \o g.session.trace] :
               g \in {x \in StudentsGenerated :
                         /\ x.store = s.work
                         /\ x.num_students = num_students
                         /\ x.rule = rule}})
    ELSE generate_students_and_enrollments(s, num_students, rule, fault)

\* one call of generate_data; "counts" are the two SELECT COUNT(*)
GenStep(s, step, scale, rule, fault) ==
    CASE step = "clear_tables" -> clear_tables(s, fault)
      [] step = "generate_departments" -> generate_departments(s, fault)
      [] step = "generate_teachers" -> generate_teachers(s, fault)
      [] step = "generate_courses" -> generate_courses(s, fault)
      [] step = "generate_students_and_enrollments" ->
            GenerateStudents(s, NumStudents[scale], rule, fault)
      [] OTHER -> Run(s, <<Stmt("SELECT", "students"), Stmt("SELECT", "enrollments")>>,
                      1, 0, fault)

\* generate_data(scale) from its k-th call on
RECURSIVE GenFrom(_, _, _, _, _)
GenFrom(s, k, scale, rule, fault) ==
    IF k > Len(GenSteps) \/ s.raised
    THEN s
    ELSE Only({GenFrom(next, k + 1, scale, rule, fault) :
               next \in {GenStep(s, GenSteps[k], scale, rule, FaultIn(fault, k))}})

\* generate_data(scale)
generate_data(s, scale, rule, fault) == GenFrom(s, 1, scale, rule, fault)

-----------------------------------------------------------------------------
(* main() *)

\* a completed call: op(scale) returned (ok) or raised
Call(op, scale, ok) == [op |-> op, scale |-> scale, ok |-> ok]

\* the answers an operation may meet: a fault of its own only within the
\* bound on faults
Within(S, normal) == IF faults < MaxFaults THEN S ELSE {normal}
Struck(a, normal) == IF a = normal THEN faults ELSE faults + 1

\* no call of time_query under observation
TqIdle == [pc |-> "idle", runs |-> 0, script |-> <<>>, times |-> <<>>,
           trials |-> <<>>, ret |-> Num(0), raised |-> FALSE]

\* the session of the program, and the database of a session
Session ==
    [NewSession(connection, aborted, db.committed, db.work) EXCEPT !.refused = db.refused]
Database(s) == [committed |-> s.committed, work |-> s.work, refused |-> s.refused]
DatabaseOf(store) == [committed |-> store, work |-> store, refused |-> FALSE]

\* the database an earlier run left behind: the tables, the rows of the
\* scale it generated last, and the indexes it had created
LeftBy(scale, indexes) ==
    Only({g.session.committed : g \in {x \in StudentsGenerated :
                                          /\ x.store = CoursesReady(indexes)
                                          /\ x.num_students = NumStudents[scale]
                                          /\ x.rule = "min"}})

\* the database main() may start on: one without tables, the one of a run
\* that ended during Phase 1, the one of a complete run
InitialDatabases == {EmptyDatabase, LeftBy(1, {}), LeftBy(4, IndexSet)}

\* no call of an operation under observation
CallIdle ==
    [pc |-> "idle", op |-> "", num_students |-> 0, rule |-> "", fault |-> NoFault,
     before |-> NewSession("None", FALSE, EmptyDatabase, EmptyDatabase),
     after |-> NewSession("None", FALSE, EmptyDatabase, EmptyDatabase)]

Init ==
    /\ pc = "connect_db"
    /\ scale_i = 0
    /\ connection = "None"
    /\ aborted = FALSE
    /\ progress_json \in InitialFiles
    /\ results = load_progress(progress_json)
    /\ log = <<>>
    /\ exit = "running"
    /\ faults = 0
    /\ tq = TqIdle
    /\ db \in {DatabaseOf(store) : store \in InitialDatabases}
    /\ call = CallIdle

\* analyzer.connect_db()
ConnectDb ==
    /\ pc = "connect_db"
    /\ \E ok \in Within(BOOLEAN, TRUE) :
         /\ connection' = IF ok THEN "open" ELSE "None"
         /\ pc' = IF ok THEN "clear_database_completely" ELSE "critical_except"
         /\ log' = Append(log, Call("connect_db", 0, ok))
         /\ faults' = Struck(ok, TRUE)
    /\ UNCHANGED <<scale_i, aborted, results, progress_json, exit, tq, db, call>>

\* analyzer.clear_database_completely(): the SELECT of the index names
\* raises when it fails; a failing DROP is caught and skipped; commit raises
\* on a broken connection and otherwise ends the transaction
\* the faults tried on it: in the SELECT, or in the first DROP
WipeFaults == {Fault({k}, kind) : k \in {1, 2}, kind \in {"error", "lost"}}

ClearDatabaseCompletely ==
    /\ pc = "clear_database_completely"
    /\ \E fault \in Within({NoFault} \cup WipeFaults, NoFault) :
       \E s \in {clear_database_completely(Session, fault)} :
         /\ connection' = s.conn
         /\ aborted' = s.aborted
         /\ db' = Database(s)
         /\ pc' = IF s.raised THEN "critical_except" ELSE "create_tables"
         /\ log' = Append(log, Call("clear_database_completely", 0, ~s.raised))
         /\ faults' = Struck(fault, NoFault)
    /\ UNCHANGED <<scale_i, results, progress_json, exit, tq, call>>

FirstScaleSkipped == scales[2]

\* for i, scale in enumerate(scales): the first index
FirstScale == 1

\* analyzer.create_tables(): five CREATE TABLE IF NOT EXISTS and a commit;
\* any failure is re-raised
CreateTables ==
    /\ pc = "create_tables"
    /\ \E fault \in Within({NoFault} \cup {Fault({1}, kind) : kind \in {"error", "lost"}},
                           NoFault) :
       \E s \in {create_tables(Session, fault)} :
         /\ connection' = s.conn
         /\ aborted' = s.aborted
         /\ db' = Database(s)
         /\ pc' = IF s.raised THEN "critical_except" ELSE "generate_data"
         /\ scale_i' = IF s.raised THEN scale_i ELSE FirstScale
         /\ log' = Append(log, Call("create_tables", 0, ~s.raised))
         /\ faults' = Struck(fault, NoFault)
    /\ UNCHANGED <<results, progress_json, exit, tq, call>>

\* the faults tried on generate_data: a statement that fails in one of its
\* calls, the statement of the call that writes (in the first batch for the
\* students), or the connection breaking in the first or in the fifth call
FaultPosition == <<1, 1, 2, 2, 2, 1>>
NoStepFault == StepFault(0, {}, "ok")
GenFaults ==
    {StepFault(step, {FaultPosition[step]}, "error") : step \in DOMAIN GenSteps}
    \cup {StepFault(step, {FaultPosition[step]}, "lost") : step \in {1, 5}}

\* the rule of random choice tried in main(), whose steps do not depend on
\* the numbers of enrollments drawn
MainRules == {"min"}

\* analyzer.generate_data(scale): clear_tables() rolls back first, and rolls
\* back again before re-raising a failure of its own; a failure in a later
\* step leaves the transaction as the failed statement left it
GenerateData ==
    /\ pc = "generate_data"
    /\ \E fault \in (IF connection = "open"
                     THEN Within({NoStepFault} \cup GenFaults, NoStepFault)
                     ELSE {NoStepFault}) :
       \E rule \in (IF fault.step \in {0, Len(GenSteps)} THEN MainRules ELSE {"min"}) :
       \E s \in {generate_data(Session, scales[scale_i], rule, fault)} :
         /\ connection' = s.conn
         /\ aborted' = s.aborted
         /\ db' = Database(s)
         /\ pc' = IF s.raised THEN "scale_except" ELSE "run_performance_tests"
         /\ log' = Append(log, Call("generate_data", scales[scale_i], ~s.raised))
         /\ faults' = Struck(fault, NoStepFault)
    /\ UNCHANGED <<scale_i, results, progress_json, exit, tq, call>>

\* the query a fault may strike during one call (0: none), within the bound
\* on faults and only while the session still answers
Strikes(conn, ab) ==
    IF conn = "open" /\ ~ab THEN Within(0..NumQueries, 0) ELSE {0}

\* analyzer.run_performance_tests(scale, with_indexes=False)
RunPerformanceTests ==
    /\ pc = "run_performance_tests"
    /\ \E struck \in Strikes(connection, aborted) :
       \E fate \in (IF struck = 0 THEN {"fast"} ELSE QueryFates \ {"fast"}) :
       \E r \in {run_performance_tests(results, scales[scale_i], FALSE,
                                       FatesOf(struck, fate), connection, aborted)} :
             /\ results' = r.results
             /\ connection' = r.conn
             /\ aborted' = r.aborted
             /\ db' = [db EXCEPT !.refused = @ \/ r.refused]
             /\ pc' = IF r.raised THEN "scale_except" ELSE "save_progress"
             /\ log' = Append(log, Call("run_performance_tests", scales[scale_i],
                                        ~r.raised))
             /\ faults' = Struck(struck, 0)
    /\ UNCHANGED <<scale_i, progress_json, exit, tq, call>>

SaveKeepsFile(file, res, written) == file

\* save_progress(): dump results to progress.json; a failure is caught.
\* open(..., 'w') empties the file before anything is written.
save_progress(file, res, written) ==
    CASE written = "all" -> FileOf(res)
      [] written = "part" -> BrokenFile
      [] OTHER -> file

LeavePhase1Early(i) ==
    IF i < Len(scales) - 1
    THEN [pc |-> "generate_data", scale_i |-> i + 1]
    ELSE [pc |-> "create_indexes", scale_i |-> i]

\* the end of one iteration of the loop over scales: the next scale, or
\* Phase 2 after the last
AfterIteration(i) ==
    IF i < Len(scales)
    THEN [pc |-> "generate_data", scale_i |-> i + 1]
    ELSE [pc |-> "create_indexes", scale_i |-> i]

\* analyzer.save_progress() after a scale
SaveProgress ==
    /\ pc = "save_progress"
    /\ \E written \in Within({"all", "part", "none"}, "all") :
         /\ progress_json' = save_progress(progress_json, results, written)
         /\ log' = Append(log, Call("save_progress", scales[scale_i], written = "all"))
         /\ faults' = Struck(written, "all")
    /\ pc' = AfterIteration(scale_i).pc
    /\ scale_i' = AfterIteration(scale_i).scale_i
    /\ UNCHANGED <<connection, aborted, results, exit, tq, db, call>>

\* except Exception as e: ... analyzer.connection.rollback() ... continue
ScaleExcept ==
    /\ pc = "scale_except"
    /\ \E s \in {Rollback(Session)} :
         /\ aborted' = s.aborted
         /\ db' = Database(s)
         /\ log' = Append(log, Call("rollback", scales[scale_i], ~s.raised))
    /\ pc' = AfterIteration(scale_i).pc
    /\ scale_i' = AfterIteration(scale_i).scale_i
    /\ UNCHANGED <<connection, results, progress_json, exit, faults, tq, call>>

\* analyzer.create_indexes(): a failing CREATE INDEX is caught; the commit
\* raises on a broken connection and otherwise ends the transaction
\* the faults tried on it: in the first or in the last CREATE INDEX
IndexFaults ==
    {Fault({k}, kind) : k \in {1, Len(IndexNames)}, kind \in {"error", "lost"}}

CreateIndexes ==
    /\ pc = "create_indexes"
    /\ \E fault \in (IF connection = "open" /\ ~aborted
                     THEN Within({NoFault} \cup IndexFaults, NoFault)
                     ELSE {NoFault}) :
       \E s \in {create_indexes(Session, fault)} :
         /\ connection' = s.conn
         /\ aborted' = s.aborted
         /\ db' = Database(s)
         /\ pc' = IF s.raised THEN "phase2_except" ELSE "run_performance_tests_4"
         /\ log' = Append(log, Call("create_indexes", 0, ~s.raised))
         /\ faults' = Struck(fault, NoFault)
    /\ UNCHANGED <<scale_i, results, progress_json, exit, tq, call>>

\* analyzer.run_performance_tests(4, with_indexes=True)
RunPerformanceTestsIndexed ==
    /\ pc = "run_performance_tests_4"
    /\ \E struck \in Strikes(connection, aborted) :
       \E fate \in (IF struck = 0 THEN {"fast"} ELSE QueryFates \ {"fast"}) :
       \E r \in {run_performance_tests(results, 4, TRUE, FatesOf(struck, fate),
                                       connection, aborted)} :
             /\ results' = r.results
             /\ connection' = r.conn
             /\ aborted' = r.aborted
             /\ db' = [db EXCEPT !.refused = @ \/ r.refused]
             /\ pc' = IF r.raised THEN "phase2_except" ELSE "save_progress_2"
             /\ log' = Append(log, Call("run_performance_tests_indexed", 4, ~r.raised))
             /\ faults' = Struck(struck, 0)
    /\ UNCHANGED <<scale_i, progress_json, exit, tq, call>>

\* analyzer.save_progress() after Phase 2
SaveProgressPhase2 ==
    /\ pc = "save_progress_2"
    /\ \E written \in Within({"all", "part", "none"}, "all") :
         /\ progress_json' = save_progress(progress_json, results, written)
         /\ log' = Append(log, Call("save_progress", 0, written = "all"))
         /\ faults' = Struck(written, "all")
    /\ pc' = "create_visualizations"
    /\ UNCHANGED <<scale_i, connection, aborted, results, exit, tq, db, call>>

Phase2FailureFatal == "critical_except"

\* where main() continues after the handler of Phase 2
AfterPhase2Except == "create_visualizations"

\* except Exception as e: ... analyzer.connection.rollback()
Phase2Except ==
    /\ pc = "phase2_except"
    /\ \E s \in {Rollback(Session)} :
         /\ aborted' = s.aborted
         /\ db' = Database(s)
         /\ log' = Append(log, Call("rollback", 0, ~s.raised))
    /\ pc' = AfterPhase2Except
    /\ UNCHANGED <<scale_i, connection, results, progress_json, exit, faults, tq, call>>

\* analyzer.create_visualizations(), any failure caught
CreateVisualizations ==
    /\ pc = "create_visualizations"
    /\ \E ok \in Within(BOOLEAN, TRUE) :
         /\ log' = Append(log, Call("create_visualizations", 0, ok))
         /\ faults' = Struck(ok, TRUE)
    /\ pc' = "generate_report"
    /\ UNCHANGED <<scale_i, connection, aborted, results, progress_json, exit, tq,
                   db, call>>

\* analyzer.generate_report(), any failure caught; main() then prints the
\* summary and leaves the try block
GenerateReport ==
    /\ pc = "generate_report"
    /\ \E ok \in Within(BOOLEAN, TRUE) :
         /\ log' = Append(log, Call("generate_report", 0, ok))
         /\ faults' = Struck(ok, TRUE)
    /\ pc' = "close_db"
    /\ exit' = "returning"
    /\ UNCHANGED <<scale_i, connection, aborted, results, progress_json, tq, db, call>>

CriticalSkipsReport == FALSE

\* the outer handler attempts analyzer.generate_report() before "raise"
CriticalAttemptsReport == TRUE

\* except Exception as e: ... analyzer.generate_report() ... raise
CriticalExcept ==
    /\ pc = "critical_except"
    /\ \E ok \in Within(BOOLEAN, TRUE) :
         /\ log' = IF CriticalAttemptsReport
                   THEN Append(log, Call("generate_report", 0, ok))
                   ELSE log
         /\ faults' = Struck(ok, TRUE)
    /\ pc' = "close_db"
    /\ exit' = "raising"
    /\ UNCHANGED <<scale_i, connection, aborted, results, progress_json, tq, db, call>>

\* finally: analyzer.close_db()
CloseDb ==
    /\ pc = "close_db"
    /\ connection' = IF connection = "None" THEN "None" ELSE "closed"
    /\ db' = [db EXCEPT !.work = db.committed]
    /\ log' = Append(log, Call("close_db", 0, TRUE))
    /\ pc' = "done"
    /\ exit' = IF exit = "raising" THEN "raised" ELSE "returned"
    /\ UNCHANGED <<scale_i, aborted, results, progress_json, faults, tq, call>>

Next ==
    \/ ConnectDb
    \/ ClearDatabaseCompletely
    \/ CreateTables
    \/ GenerateData
    \/ RunPerformanceTests
    \/ SaveProgress
    \/ ScaleExcept
    \/ CreateIndexes
    \/ RunPerformanceTestsIndexed
    \/ SaveProgressPhase2
    \/ Phase2Except
    \/ CreateVisualizations
    \/ GenerateReport
    \/ CriticalExcept
    \/ CloseDb

Spec == Init /\ [][Next]_vars

\* main() is one sequential thread: a step that can be taken is taken
FairSpec == Spec /\ WF_vars(Next)

-----------------------------------------------------------------------------
(* time_query on its own: every trial count up to MaxRuns, every script of *)
(* answers of the server, every state of the session                       *)

Latencies == {250, ErrorFallback, SkipCutoff, SkipCutoff + 1}

TrialResponses ==
    {Ok(ms) : ms \in Latencies}
    \cup {Error(m) : m \in {MsgStatementTimeout, MsgLockTimeout, MsgTimedOut}}
    \cup {Lost}

TimerInit ==
    /\ pc = "time_query"
    /\ scale_i = 0
    /\ connection \in {"open", "lost"}
    /\ aborted \in BOOLEAN
    /\ results = EmptyResults
    /\ progress_json = NoFile
    /\ log = <<>>
    /\ exit = "running"
    /\ faults = 0
    /\ db = DatabaseOf(CoursesReady({}))
    /\ call = CallIdle
    /\ \E runs \in 0..MaxRuns : \E script \in [1..runs -> TrialResponses] :
         tq = [TqIdle EXCEPT !.pc = "called", !.runs = runs, !.script = script]

TimeQueryCall ==
    /\ tq.pc = "called"
    /\ \E out \in {time_query(tq.script, tq.runs, connection, aborted)} :
           /\ tq' = [tq EXCEPT !.pc = "returned", !.times = out.times,
                               !.trials = out.trials, !.ret = out.ret,
                               !.raised = out.raised]
           /\ connection' = out.conn
           /\ aborted' = out.aborted
    /\ UNCHANGED <<pc, scale_i, results, progress_json, log, exit, faults, db, call>>

TimerNext == TimeQueryCall

TimerSpec == TimerInit /\ [][TimerNext]_vars

-----------------------------------------------------------------------------
(* The operations on the database on their own: each called once, on the    *)
(* databases and sessions the program can call it on, with the faults the   *)
(* server can answer with                                                    *)

\* generate_students_and_enrollments is exercised with up to MaxBatches full
\* batches
MaxBatches == 2

\* numbers of students around the batch boundaries
StudentCounts ==
    {b * batch_size + d : b \in 0..MaxBatches, d \in {0, 1, batch_size - 1}}

\* all five tables, without rows
TablesOnly == [EmptyDatabase EXCEPT !.tables = TableSet]

Healthy(committed, work) == NewSession("open", FALSE, committed, work)
Clean(store) == Healthy(store, store)

\* the sessions an operation may be called on: healthy on a database with
\* or without uncommitted work, with the transaction aborted by an earlier
\* statement, with the connection broken
Sessions ==
    {Clean(store) : store \in {EmptyDatabase, TablesOnly, CoursesReady({}),
                               CoursesReady(IndexSet), LeftBy(1, {}),
                               LeftBy(1, IndexSet)}}
    \cup {Healthy(CoursesReady({}), LeftBy(1, {}))}
    \cup {NewSession(conn, ab, LeftBy(1, {}), LeftBy(1, {})) :
            conn \in {"open", "lost"}, ab \in BOOLEAN}

AtMostTwo(n) == {A \in SUBSET (1..n) : Cardinality(A) <= 2}
FaultsAmong(n) ==
    {NoFault} \cup {Fault(A, "error") : A \in AtMostTwo(n) \ {{}}}
    \cup {Fault({k}, "lost") : k \in 1..n}
OneFaultAmong(n) ==
    {NoFault} \cup {Fault({k}, kind) : k \in 1..n, kind \in {"error", "lost"}}

CallOf(op, s, num_students, rule, fault) ==
    [pc |-> "called", op |-> op, num_students |-> num_students, rule |-> rule,
     fault |-> fault, before |-> s, after |-> s]

\* the calls exercised
StoreCalls ==
    {CallOf(op, s, 0, "", fault) :
        op \in {"create_tables", "clear_tables"}, s \in Sessions,
        fault \in OneFaultAmong(Len(TableNames))}
    \cup {CallOf("clear_database_completely", s, 0, "", fault) :
            s \in Sessions, fault \in OneFaultAmong(3)}
    \cup {CallOf(op, s, 0, "", fault) :
            op \in {"create_indexes", "drop_indexes"}, s \in Sessions,
            fault \in FaultsAmong(Len(IndexNames))}
    \cup {CallOf("generate_students_and_enrollments", Clean(CoursesReady({})), n, rule,
                 fault) :
            n \in StudentCounts, rule \in Rules,
            fault \in OneFaultAmong(3 * MaxBatches + 1)}
    \cup {CallOf("generate_students_and_enrollments", s, n, "mixed", NoFault) :
            s \in Sessions, n \in {1, batch_size + 1}}
    \cup {CallOf("run_performance_tests", s, 0, fate, Fault({struck}, "error")) :
            s \in Sessions, struck \in 0..NumQueries, fate \in QueryFates}

StoreInit ==
    /\ pc = "call"
    /\ scale_i = 0
    /\ results = EmptyResults
    /\ progress_json = NoFile
    /\ log = <<>>
    /\ exit = "running"
    /\ faults = 0
    /\ tq = TqIdle
    /\ call \in StoreCalls
    /\ connection = call.before.conn
    /\ aborted = call.before.aborted
    /\ db = Database(call.before)

\* the call returns, or raises, leaving the session s
Returns(s) ==
    /\ call' = [call EXCEPT !.pc = "returned", !.after = s]
    /\ connection' = s.conn
    /\ aborted' = s.aborted
    /\ db' = Database(s)
    /\ UNCHANGED <<pc, scale_i, results, progress_json, log, exit, faults, tq>>

Calling(op) == call.pc = "called" /\ call.op = op

CreateTablesCall ==
    /\ Calling("create_tables")
    /\ \E s \in {create_tables(call.before, call.fault)} : Returns(s)

ClearTablesCall ==
    /\ Calling("clear_tables")
    /\ \E s \in {clear_tables(call.before, call.fault)} : Returns(s)

ClearDatabaseCompletelyCall ==
    /\ Calling("clear_database_completely")
    /\ \E s \in {clear_database_completely(call.before, call.fault)} : Returns(s)

CreateIndexesCall ==
    /\ Calling("create_indexes")
    /\ \E s \in {create_indexes(call.before, call.fault)} : Returns(s)

DropIndexesCall ==
    /\ Calling("drop_indexes")
    /\ \E s \in {drop_indexes(call.before, call.fault)} : Returns(s)

GenerateStudentsCall ==
    /\ Calling("generate_students_and_enrollments")
    /\ \E s \in {generate_students_and_enrollments(call.before, call.num_students,
                                                   call.rule, call.fault)} :
         Returns(s)

\* run_performance_tests(1), a fault of kind call.rule striking the query
\* call.fault names
RunPerformanceTestsCall ==
    /\ Calling("run_performance_tests")
    /\ \E r \in {run_performance_tests(EmptyResults, 1, FALSE,
                                       FatesOf(Only(call.fault.at), call.rule),
                                       call.before.conn, call.before.aborted)} :
         Returns([call.before EXCEPT !.conn = r.conn, !.aborted = r.aborted,
                                     !.raised = r.raised,
                                     !.refused = r.refused,
                                     !.work = IF r.conn = "open" /\ ~r.aborted
                                              THEN @ ELSE call.before.committed])

StoreNext ==
    \/ CreateTablesCall
    \/ ClearTablesCall
    \/ ClearDatabaseCompletelyCall
    \/ CreateIndexesCall
    \/ DropIndexesCall
    \/ GenerateStudentsCall
    \/ RunPerformanceTestsCall

StoreSpec == StoreInit /\ [][StoreNext]_vars

-----------------------------------------------------------------------------
(* Claims about time_query, checked under TimerSpec *)

FastOk(r) == r.kind = "ok" /\ r.ms <= 120000
SlowOk(r) == r.kind = "ok" /\ r.ms > 120000
Failed(r) == r.kind # "ok"
TimeoutMessages == {MsgStatementTimeout, MsgLockTimeout}
ExpectedFallback(r) == IF r.msg \in TimeoutMessages THEN 300000 ELSE 60000

\* C5: with every executed trial succeeding in at most 120000 ms, exactly
\* runs trials are executed; a trial succeeding in more than 120000 ms is the
\* last trial executed.
C5_TrialCount ==
    tq.pc = "returned" =>
        LET n == Len(tq.trials)
        IN  /\ Len(tq.times) = n
            /\ (\A k \in 1..n : FastOk(tq.trials[k])) => n = tq.runs
            /\ \A k \in 1..n : SlowOk(tq.trials[k]) => k = n

C5_Witness ==
    /\ tq.pc = "returned"
    /\ tq.runs = 3
    /\ Len(tq.trials) = 1
    /\ SlowOk(tq.trials[1])

\* C7: a failed trial records exactly one fallback latency, 300000 ms when
\* the failure message contains "timeout" in any letter case and 60000 ms
\* otherwise, and is the last trial executed, so the fallback is the last
\* element of times and the only one.
C7_FallbackLast ==
    tq.pc = "returned" =>
        LET n == Len(tq.trials)
        IN  /\ Len(tq.times) = n
            /\ \A k \in 1..n :
                 Failed(tq.trials[k]) =>
                    /\ k = n
                    /\ tq.times[k] = ExpectedFallback(tq.trials[k])
            /\ \A k \in 1..n : ~Failed(tq.trials[k]) => tq.times[k] = tq.trials[k].ms

C7_Witness ==
    /\ tq.pc = "returned"
    /\ tq.runs = 3
    /\ Len(tq.trials) = 2
    /\ tq.trials[2].kind = "error"
    /\ tq.trials[2].msg = MsgLockTimeout
    /\ tq.times[2] = 300000

\* the latencies of the completed trials among the executed ones
RECURSIVE CompletedLatencies(_)
CompletedLatencies(trials) ==
    IF trials = <<>> THEN <<>>
    ELSE IF Head(trials).kind = "ok"
         THEN <<Head(trials).ms>> \o CompletedLatencies(Tail(trials))
         ELSE CompletedLatencies(Tail(trials))

\* what each executed trial leaves in times: its latency, or its fallback
RECURSIVE RecordedTotal(_)
RecordedTotal(trials) ==
    IF trials = <<>> THEN 0
    ELSE (IF Head(trials).kind = "ok" THEN Head(trials).ms
          ELSE ExpectedFallback(Head(trials)))
         + RecordedTotal(Tail(trials))

RECURSIVE Total(_)
Total(s) == IF s = <<>> THEN 0 ELSE Head(s) + Total(Tail(s))

\* C6 as claimed: whenever a trial completed, the value returned is the mean
\* of the latencies of the completed trials only.
C6_MeanOfCompletedOnly ==
    (tq.pc = "returned" /\ CompletedLatencies(tq.trials) # <<>>) =>
        tq.ret.num * Len(CompletedLatencies(tq.trials))
            = Total(CompletedLatencies(tq.trials)) * tq.ret.den

\* C6 as amended: whenever a trial completed, the value returned is the mean
\* of everything recorded: the latencies of the completed trials and, when
\* the last executed trial failed, its fallback latency as one more sample.
C6_MeanOfRecorded ==
    (tq.pc = "returned" /\ CompletedLatencies(tq.trials) # <<>>) =>
        /\ tq.ret.den > 0
        /\ tq.ret.num * Len(tq.trials) = RecordedTotal(tq.trials) * tq.ret.den

C6_Witness ==
    /\ tq.pc = "returned"
    /\ Len(tq.trials) = 2
    /\ tq.trials[1] = Ok(250)
    /\ tq.trials[2] = Error(MsgTimedOut)
    /\ tq.ret = [num |-> 60250, den |-> 2]

\* C8: when no executed trial completed, time_query returns exactly 60000 ms,
\* for a timeout and for any other failure.
C8_AllFailedReturnsFixed ==
    (tq.pc = "returned" /\ \A k \in 1..Len(tq.trials) : Failed(tq.trials[k])) =>
        (tq.ret.den > 0 /\ tq.ret.num = 60000 * tq.ret.den)

-----------------------------------------------------------------------------
(* Claims about main(), checked under Spec and FairSpec *)

Logged(e) == \E k \in DOMAIN log : log[k] = e
Called(op) == \E k \in DOMAIN log : log[k].op = op

\* the stage a call of main() belongs to: 0 INIT, 1 PHASE1, 2 PHASE2,
\* 3 REPORT, 4 the end of the run
Stage(e) ==
    CASE e.op \in {"connect_db", "clear_database_completely", "create_tables"} -> 0
      [] e.op \in {"generate_data", "run_performance_tests"} -> 1
      [] e.op \in {"save_progress", "rollback"} -> IF e.scale > 0 THEN 1 ELSE 2
      [] e.op \in {"create_indexes", "run_performance_tests_indexed"} -> 2
      [] e.op \in {"create_visualizations", "generate_report"} -> 3
      [] OTHER -> 4

EndsIteration(e, s) == e.op \in {"save_progress", "rollback"} /\ e.scale = s

\* C1: once the connection, the INIT wipe and create_tables have succeeded,
\* the calls of main() go through the stages in the order INIT, PHASE1,
\* PHASE2, REPORT; Phase 1 attempts the scales 1, 2, 3, 4 in this order, each
\* once, generate_data before run_performance_tests; create_indexes starts
\* only after the iteration of scale 4 has ended; the visualizations start
\* only after Phase 2 has ended.
C1_StageOrder ==
    Logged(Call("create_tables", 0, TRUE)) =>
        /\ \A j, k \in DOMAIN log : j < k => Stage(log[j]) <= Stage(log[k])
        /\ \A k \in DOMAIN log :
             log[k].op = "generate_data" =>
                /\ \A j \in 1..(k - 1) :
                     log[j].op = "generate_data" => log[j].scale < log[k].scale
                /\ \A s \in 1..(log[k].scale - 1) :
                     \E j \in 1..(k - 1) :
                        log[j].op = "generate_data" /\ log[j].scale = s
        /\ \A k \in DOMAIN log :
             log[k].op = "run_performance_tests" =>
                k > 1 /\ log[k - 1] = Call("generate_data", log[k].scale, TRUE)
        /\ \A k \in DOMAIN log :
             log[k].op = "create_indexes" =>
                /\ \A s \in 1..4 :
                     Cardinality({j \in 1..(k - 1) :
                        log[j].op = "generate_data" /\ log[j].scale = s}) = 1
                /\ EndsIteration(log[k - 1], 4)
        /\ \A k \in DOMAIN log :
             log[k].op = "run_performance_tests_indexed" =>
                log[k - 1].op = "create_indexes"
        /\ \A k \in DOMAIN log :
             log[k].op = "create_visualizations" =>
                /\ Called("create_indexes")
                /\ EndsIteration(log[k - 1], 0)
        /\ \A k \in DOMAIN log :
             (log[k].op = "generate_report" /\ k > 1) =>
                log[k - 1].op = "create_visualizations"

C1_Witness ==
    /\ pc = "done"
    /\ exit = "returned"
    /\ Logged(Call("generate_data", 2, FALSE))
    /\ Logged(Call("run_performance_tests", 4, TRUE))
    /\ Logged(Call("run_performance_tests_indexed", 4, TRUE))
    /\ Logged(Call("generate_report", 0, TRUE))

\* C2: when generate_data(s) or run_performance_tests(s) fails in Phase 1,
\* the failure is caught, rollback is called, the loop goes on with the next
\* scale, and results['without_indexes'] has no entry 'scale_<s>', whatever
\* progress.json held when the run began.
C2_FailedScaleHasNoEntry ==
    \A k \in DOMAIN log :
        (log[k].op \in {"generate_data", "run_performance_tests"} /\ ~log[k].ok) =>
            /\ exit \notin {"raising", "raised"}
            /\ k < Len(log) => log[k + 1].op = "rollback" /\ log[k + 1].scale = log[k].scale
            /\ k + 1 < Len(log) =>
                  \/ log[k + 2] \in {Call("generate_data", log[k].scale + 1, ok) :
                                        ok \in BOOLEAN}
                  \/ log[k].scale = 4 /\ log[k + 2].op = "create_indexes"
            /\ Key(log[k].scale) \notin DOMAIN results.without_indexes

\* C3: once INIT and create_tables have succeeded, the run reaches REPORT
\* (create_visualizations and generate_report are called) and never ends by
\* raising, whatever fails in Phase 1 and in Phase 2.
C3_ReachesReport ==
    /\ [](Logged(Call("create_tables", 0, TRUE)) =>
            <>(Called("create_visualizations") /\ Called("generate_report")))
    /\ [](Logged(Call("create_tables", 0, TRUE)) => exit \notin {"raising", "raised"})

C3_Witness ==
    /\ pc = "done"
    /\ Logged(Call("generate_data", 1, FALSE))
    /\ Logged(Call("create_indexes", 0, FALSE))
    /\ Called("create_visualizations")
    /\ Called("generate_report")
    /\ exit = "returned"

Fatal ==
    \/ Logged(Call("connect_db", 0, FALSE))
    \/ Logged(Call("clear_database_completely", 0, FALSE))
    \/ Logged(Call("create_tables", 0, FALSE))

\* C4: every run that ends has attempted generate_report; after a failure
\* of the connection, of the INIT wipe or of create_tables no operation of
\* Phase 1 or Phase 2 is executed, and main() raises, after the attempt.
C4_ReportAlwaysAttempted ==
    /\ pc \in {"close_db", "done"} => Called("generate_report")
    /\ Fatal =>
         /\ \A k \in DOMAIN log : Stage(log[k]) \notin {1, 2}
         /\ ~Called("create_visualizations")
         /\ pc \in {"critical_except", "close_db", "done"}
         /\ pc \in {"close_db", "done"} => exit \in {"raising", "raised"}
         /\ pc = "done" => exit = "raised"
    /\ exit \in {"raising", "raised"} => Called("generate_report")

C4_Witness ==
    /\ pc = "done"
    /\ exit = "raised"
    /\ Logged(Call("clear_database_completely", 0, FALSE))
    /\ Logged(Call("generate_report", 0, FALSE))

\* a stored value: the mean of query q's trials when all were fast, or what
\* time_query returns for a query whose first trial failed
TimingOfQuery(v, q) ==
    /\ v.den > 0
    /\ \/ v.num = 100 * q * v.den
       \/ v.num = 300000 * v.den
       \/ v.num = 60000 * v.den

FiveTimings(entry) ==
    /\ DOMAIN entry = 1..5
    /\ \A q \in 1..5 : TimingOfQuery(entry[q], q)

\* C9: no call of run_performance_tests raises, whatever strikes a trial of
\* one of the five queries, and each call leaves under its key exactly five
\* timings, in the order of the queries 1..5.
C9_FiveTimingsStored ==
    /\ \A k \in DOMAIN log :
         log[k].op \in {"run_performance_tests", "run_performance_tests_indexed"}
            => log[k].ok
    /\ pc = "save_progress" =>
         /\ Key(scales[scale_i]) \in DOMAIN results.without_indexes
         /\ FiveTimings(results.without_indexes[Key(scales[scale_i])])
    /\ pc = "save_progress_2" =>
         /\ Key(4) \in DOMAIN results.with_indexes
         /\ FiveTimings(results.with_indexes[Key(4)])

C9_Witness ==
    /\ pc = "save_progress"
    /\ scale_i = 2
    /\ Key(2) \in DOMAIN results.without_indexes
    /\ LET e == results.without_indexes[Key(2)]
       IN  /\ e[2] = [num |-> 600, den |-> 3]
           /\ e[3] = [num |-> 300000, den |-> 1]
           /\ e[4] = [num |-> 60000, den |-> 1]

\* C10: an entry of results, loaded from progress.json or written earlier in
\* the run, is never assigned again by a later step of the run.
C10_AppendOnly ==
    [][\A st \in {"without_indexes", "with_indexes"} :
         \A key \in DOMAIN results[st] :
            key \in DOMAIN results'[st] /\ results'[st][key] = results[st][key]]_vars

-----------------------------------------------------------------------------
(* Claims about the result store, checked under Spec *)

SaveCalls == {k \in DOMAIN log : log[k].op = "save_progress"}
AtReport ==
    pc \in {"create_visualizations", "generate_report", "critical_except",
            "close_db", "done"}

\* C11: the result store is persisted after every completed Phase 1 scale
\* and after Phase 2.  Right after a save_progress whose write succeeded the
\* file holds the in-memory results map; every step of the run that changes
\* the results map leads straight to a save_progress; and from REPORT on,
\* when every write of the run succeeded, reading the file gives the
\* in-memory results map.
C11_PersistedAfterEachScale ==
    /\ [](\A k \in SaveCalls :
            (k = Len(log) /\ log[k].ok) => progress_json = FileOf(results))
    /\ []((AtReport /\ \A k \in SaveCalls : log[k].ok) =>
            load_progress(progress_json) = results)
    /\ [][results' # results => pc' \in {"save_progress", "save_progress_2"}]_vars

C11_Witness ==
    /\ pc = "generate_report"
    /\ Cardinality(SaveCalls) = Len(scales) + 1
    /\ \A k \in SaveCalls : log[k].ok
    /\ DOMAIN results.without_indexes = {Key(scales[n]) : n \in 1..Len(scales)}
    /\ Key(4) \in DOMAIN results.with_indexes
    /\ progress_json = FileOf(results)

\* C12: whatever progress.json held at startup, a run that gets through INIT
\* has called clear_database_completely and attempts generate_data for each
\* of the scales 1..4, the timing of every scale whose data was generated,
\* create_indexes, and the with-indexes timing when create_indexes returned:
\* no scale is skipped because the results map already holds its entry.
C12_NoScaleSkipped ==
    (pc = "done" /\ Logged(Call("create_tables", 0, TRUE))) =>
        /\ Logged(Call("clear_database_completely", 0, TRUE))
        /\ \A n \in 1..Len(scales) :
             /\ \E ok \in BOOLEAN : Logged(Call("generate_data", scales[n], ok))
             /\ Logged(Call("generate_data", scales[n], TRUE)) =>
                   Logged(Call("run_performance_tests", scales[n], TRUE))
        /\ Called("create_indexes")
        /\ Logged(Call("create_indexes", 0, TRUE)) =>
              Logged(Call("run_performance_tests_indexed", 4, TRUE))

\* a run that started from the progress.json of a complete earlier run: it
\* measured scale 1 again, and its scale 4 failed and kept the loaded entry
C12_Witness ==
    /\ pc = "done"
    /\ exit = "returned"
    /\ Logged(Call("run_performance_tests", 1, TRUE))
    /\ Logged(Call("generate_data", 4, FALSE))
    /\ Key(1) \in DOMAIN results.without_indexes
    /\ results.without_indexes[Key(1)] # PriorTimings
    /\ Key(4) \in DOMAIN results.without_indexes
    /\ results.without_indexes[Key(4)] = PriorTimings
    /\ Key(4) \in DOMAIN results.with_indexes

-----------------------------------------------------------------------------
(* Claims about the operations on the database, checked under StoreSpec *)

Returned(op) == call.pc = "returned" /\ call.op = op

\* the statements of kind op in a trace, in the order issued, and the names
\* they were issued on
IssuedOf(trace, op) == SelectSeq(trace, LAMBDA e : e.stmt.op = op)
Names(trace) == [k \in DOMAIN trace |-> trace[k].stmt.name]
IsPrefix(a, b) == Len(a) <= Len(b) /\ \A k \in DOMAIN a : a[k] = b[k]
Last(trace) == trace[Len(trace)]

\* C13: clear_tables is all-or-nothing.  It truncates enrollments, students,
\* courses, teachers, departments in that order; when it returns normally
\* all five tables have zero rows and the clear is committed; when any
\* truncate fails it raises, the partial clear is rolled back, and every
\* table holds exactly the committed rows it held before the call.
C13_ClearAllOrNothing ==
    Returned("clear_tables") =>
        /\ IsPrefix(Names(IssuedOf(call.after.trace, "TRUNCATE RESTART IDENTITY CASCADE")),
                    <<"enrollments", "students", "courses", "teachers", "departments">>)
        /\ ~call.after.raised =>
              /\ \A t \in TableSet : call.after.committed.rows[t] = 0
              /\ call.after.work = call.after.committed
              /\ Len(IssuedOf(call.after.trace, "TRUNCATE RESTART IDENTITY CASCADE")) = 5
              /\ Last(call.after.trace) = Issued(Stmt("COMMIT", ""), "ok")
        /\ call.after.raised =>
              /\ call.after.committed = call.before.committed
              /\ call.after.conn = "open" =>
                    /\ ~call.after.aborted
                    /\ call.after.work = call.after.committed

\* clear_tables raised after two truncates had been accepted and the third
\* failed, on tables that held committed rows which are all still there
C13_Witness ==
    /\ Returned("clear_tables")
    /\ call.after.raised
    /\ call.fault = Fault({3}, "error")
    /\ call.before.committed.rows["students"] = NumStudents[1]
    /\ call.before.committed.rows["enrollments"] > 0
    /\ call.after.committed = call.before.committed
    /\ call.after.work = call.before.committed
    /\ Len(IssuedOf(call.after.trace, "TRUNCATE RESTART IDENTITY CASCADE")) = 3
    /\ Last(call.after.trace) = Issued(Stmt("ROLLBACK", ""), "ok")

\* the call was made on a healthy session over the five tables, and the
\* server failed the statements of call.fault with an error of their own
OnHealthyTables ==
    /\ call.before.conn = "open"
    /\ ~call.before.aborted
    /\ call.before.work.tables = TableSet
    /\ call.fault.kind \in {"ok", "error"}

\* C14: create_indexes and drop_indexes treat each index statement as an
\* independent best-effort step: when one statement fails the remaining ones
\* still take effect, and on return every index whose own statement the
\* server did not fail exists (create_indexes), or no longer exists
\* (drop_indexes), and the change is committed.
C14_EachIndexIndependent ==
    /\ Returned("create_indexes") /\ OnHealthyTables =>
          /\ ~call.after.raised
          /\ \A k \in DOMAIN IndexNames :
                k \notin call.fault.at => IndexNames[k] \in call.after.committed.indexes
    /\ Returned("drop_indexes") /\ OnHealthyTables =>
          /\ ~call.after.raised
          /\ \A k \in DOMAIN IndexNames :
                k \notin call.fault.at => IndexNames[k] \notin call.after.committed.indexes

\* the operations that change the schema or empty the tables
SchemaOperations ==
    {"create_tables", "clear_tables", "clear_database_completely", "create_indexes",
     "drop_indexes"}

\* the batches of the call whose rows were all accepted
CompleteBatches ==
    Len(SelectSeq(call.after.trace,
                  LAMBDA e : e.stmt.op = "INSERT" /\ e.stmt.name = "enrollments"
                             /\ e.end = "ok"))

Commits(trace) == IssuedOf(trace, "COMMIT")

\* a query of the call failed on the server, the connection staying open
QueryFailed ==
    /\ call.before.conn = "open"
    /\ ~call.before.aborted
    /\ call.rule = "timeout"
    /\ call.fault.at \subseteq 1..NumQueries

\* C16, as the specification states it: commit is called explicitly after
\* each logical unit of work: after a schema change, after each generation
\* batch, so that a failure in batch k leaves the batches 1..k-1 committed,
\* and after each scale's timings, so that the transaction the timings ran
\* in has ended when run_performance_tests returns.
C16_CommitAfterEachUnit ==
    /\ call.pc = "returned" /\ call.op \in SchemaOperations /\ ~call.after.raised =>
          Last(call.after.trace).stmt.op = "COMMIT"
    /\ Returned("generate_students_and_enrollments")
       /\ call.before.work = call.before.committed =>
          call.after.committed.rows["students"]
              = call.before.committed.rows["students"]
                + (IF call.after.raised THEN batch_size * CompleteBatches
                   ELSE call.num_students)
    /\ Returned("run_performance_tests") /\ call.after.conn = "open"
       /\ ~call.after.raised =>
          ~call.after.aborted

\* C16, as the code has it: commit is called once at the end of each
\* operation that writes: after the statements of a schema change, and once
\* after all batches of generate_students_and_enrollments, so that a failure
\* in any batch leaves none of the call's rows committed;
\* run_performance_tests calls neither commit nor rollback, so that the
\* transaction a failed query aborted is still aborted when it returns.
C16_CommitAfterEachOperation ==
    /\ call.pc = "returned" /\ call.op \in SchemaOperations /\ ~call.after.raised =>
          Last(call.after.trace).stmt.op = "COMMIT"
    /\ Returned("generate_students_and_enrollments") =>
          IF call.after.raised
          THEN /\ Commits(call.after.trace) = <<>>
               /\ call.after.committed = call.before.committed
          ELSE /\ Commits(call.after.trace) = <<Issued(Stmt("COMMIT", ""), "ok")>>
               /\ Last(call.after.trace).stmt.op = "COMMIT"
               /\ call.after.committed.rows["students"]
                     = call.before.work.rows["students"] + call.num_students
    /\ Returned("run_performance_tests") =>
          /\ call.after.committed = call.before.committed
          /\ call.before.conn = "open" /\ call.before.aborted => call.after.aborted
          /\ QueryFailed => call.after.aborted /\ ~call.after.raised

\* the enrollments of the second of two batches were refused by the server
\* after the first batch had been accepted whole: nothing of the call is
\* committed
C16_Witness ==
    /\ Returned("generate_students_and_enrollments")
    /\ call.num_students = 2 * batch_size
    /\ call.fault = Fault({7}, "error")
    /\ call.after.raised
    /\ CompleteBatches = 1
    /\ call.after.committed.rows["students"] = 0
    /\ call.after.committed.rows["enrollments"] = 0
    /\ Commits(call.after.trace) = <<>>

\* the INSERT INTO enrollments statements of the call, one per batch
EnrollmentInserts ==
    SelectSeq(call.after.trace,
              LAMBDA e : e.stmt.op = "INSERT" /\ e.stmt.name = "enrollments")

\* the students a batch's enrollments were generated for, and the courses
\* random.sample drew for one of them
StudentsOf(stmt) ==
    stmt.refs["enrollments.student_id"].lo .. stmt.refs["enrollments.student_id"].hi
CoursesOf(stmt, id) ==
    Sample(stmt.refs["enrollments.course_id"].hi, NumEnrollments(stmt.per, id), id)

Distinct(seq) == \A i, j \in DOMAIN seq : seq[i] = seq[j] => i = j

\* the call was made on freshly cleared students and enrollments tables
OnFreshTables ==
    /\ call.before.work.rows["students"] = 0
    /\ call.before.work.rows["enrollments"] = 0

\* C17: a call generate_students_and_enrollments(N) on freshly cleared
\* tables that returns normally leaves exactly N students; each of them
\* received its enrollments in exactly one batch, no batch generated
\* enrollments for a student of another batch; each student has between 5
\* and 10 enrollments, all in different courses; the enrollments number
\* between 5N and 10N.  This holds for every N >= 0, multiples of the batch
\* size or not.
C17_StudentsAndEnrollments ==
    Returned("generate_students_and_enrollments") /\ OnFreshTables
    /\ ~call.after.raised =>
        /\ call.after.committed.rows["students"] = call.num_students
        /\ \A k \in DOMAIN EnrollmentInserts :
              /\ EnrollmentInserts[k].end = "ok"
              /\ StudentsOf(EnrollmentInserts[k].stmt) \subseteq 1..call.num_students
        /\ \A id \in 1..call.num_students :
              /\ Cardinality({k \in DOMAIN EnrollmentInserts :
                                id \in StudentsOf(EnrollmentInserts[k].stmt)}) = 1
              /\ \A k \in DOMAIN EnrollmentInserts :
                    id \in StudentsOf(EnrollmentInserts[k].stmt) =>
                       /\ Len(CoursesOf(EnrollmentInserts[k].stmt, id)) \in 5..10
                       /\ Distinct(CoursesOf(EnrollmentInserts[k].stmt, id))
                       /\ \A j \in DOMAIN CoursesOf(EnrollmentInserts[k].stmt, id) :
                             CoursesOf(EnrollmentInserts[k].stmt, id)[j]
                                \in 1..call.after.committed.rows["courses"]
        /\ call.after.committed.rows["enrollments"] >= 5 * call.num_students
        /\ call.after.committed.rows["enrollments"] <= 10 * call.num_students
        /\ call.after.committed.refs["enrollments.student_id"]
              = (IF call.num_students = 0 THEN NoRef ELSE Ref(1, call.num_students))

\* one student more than a batch, with different numbers of enrollments:
\* two batches, the second for the last student alone
C17_Witness ==
    /\ Returned("generate_students_and_enrollments")
    /\ OnFreshTables
    /\ ~call.after.raised
    /\ call.num_students = batch_size + 1
    /\ call.rule = "mixed"
    /\ call.after.committed.rows["students"] = batch_size + 1
    /\ Len(EnrollmentInserts) = 2
    /\ StudentsOf(EnrollmentInserts[1].stmt) = 1..batch_size
    /\ StudentsOf(EnrollmentInserts[2].stmt) = {batch_size + 1}
    /\ call.after.committed.rows["enrollments"] > 5 * call.num_students
    /\ call.after.committed.rows["enrollments"] < 10 * call.num_students

-----------------------------------------------------------------------------
(* Claims about the database during a run of main(), checked under Spec *)

\* C15: after any caught failure of a statement, rollback is called before
\* the next operation on the store, so that no statement is ever issued
\* while the transaction is in the aborted state.
C15_NoStatementInAbortedTransaction == ~db.refused

\* every foreign key of the store references rows that exist
Integrity(store) ==
    \A fk \in DOMAIN ForeignKeys :
        \/ store.refs[fk] = NoRef
        \/ /\ {ForeignKeys[fk].child, ForeignKeys[fk].parent} \subseteq store.tables
           /\ store.rows[ForeignKeys[fk].child] > 0
           /\ 1 <= store.refs[fk].lo
           /\ store.refs[fk].hi <= store.rows[ForeignKeys[fk].parent]

\* the call of generate_data that fills a table
Generator ==
    [t \in TableSet |->
        CASE t = "departments" -> "generate_departments"
          [] t = "teachers" -> "generate_teachers"
          [] t = "courses" -> "generate_courses"
          [] OTHER -> "generate_students_and_enrollments"]

Position(seq, x) == CHOOSE k \in DOMAIN seq : seq[k] = x

\* C18: referential integrity holds in every committed state of the store
\* reachable during a run: every teacher's department, every course's
\* teacher and every enrollment's student and course exist.  The code gets
\* there by generating parents before children (departments, teachers,
\* courses, then students with their enrollments) and by clearing children
\* before parents.
C18_ReferentialIntegrity ==
    /\ Integrity(db.committed)
    /\ Integrity(db.work)
    /\ \A fk \in DOMAIN ForeignKeys :
          /\ Position(GenSteps, Generator[ForeignKeys[fk].parent])
                <= Position(GenSteps, Generator[ForeignKeys[fk].child])
          /\ Position(GenSteps, "clear_tables")
                < Position(GenSteps, Generator[ForeignKeys[fk].parent])
          /\ Position(TruncateOrder, ForeignKeys[fk].child)
                < Position(TruncateOrder, ForeignKeys[fk].parent)
    /\ Position(GenSteps, "generate_departments") < Position(GenSteps, "generate_teachers")
    /\ Position(GenSteps, "generate_teachers") < Position(GenSteps, "generate_courses")
    /\ Position(GenSteps, "generate_courses")
          < Position(GenSteps, "generate_students_and_enrollments")

\* the second scale is committed whole: every student of it is referenced
\* by enrollments, whose courses, their teachers and departments exist
C18_Witness ==
    /\ pc = "run_performance_tests"
    /\ db.committed.rows["students"] = NumStudents[2]
    /\ db.committed.refs["enrollments.student_id"] = Ref(1, NumStudents[2])
    /\ db.committed.refs["enrollments.course_id"] = Ref(1, NumCourses)
    /\ db.committed.refs["courses.teacher_id"] = Ref(1, NumTeachers)
    /\ db.committed.refs["teachers.department_id"] = Ref(1, NumDepartments)
    /\ db.committed.rows["enrollments"] >= 5 * NumStudents[2]

\* C19: every timing recorded under without_indexes was measured while none
\* of the six performance indexes existed: the full wipe at start-up leaves
\* a clean slate, also when an individual drop fails and is skipped, and
\* nothing creates an index before Phase 2.
C19_TimedWithoutIndexes ==
    /\ pc = "create_tables" => db.committed = EmptyDatabase
    /\ pc = "save_progress" => db.committed.indexes \cap IndexSet = {}

\* C20: whenever a run records the entry with_indexes.scale_4, the store
\* holds a complete scale-4 data set at that moment: the 1,000,000 students
\* of scale 4 with their enrollments.
C20_IndexedTimingsOnScale4 ==
    pc = "save_progress_2" =>
        /\ db.committed.rows["students"] = NumStudents[4]
        /\ db.committed.rows["enrollments"] >= MinEnrollments * NumStudents[4]
        /\ db.committed.refs["enrollments.student_id"] = Ref(1, NumStudents[4])
====
